---- MODULE Spec2Model ----
(***************************************************************************)
(* voltnet_lottery: the two instructions of the program (initialize,       *)
(* buy_tickets) over the accounts they name: the LotteryState PDA, the     *)
(* vault PDA, the per-(user, epoch) UserTickets PDAs and the lamport       *)
(* balances of the wallets involved.                                       *)
(*                                                                         *)
(* One action is one instruction: the account constraints of its           *)
(* #[derive(Accounts)] struct, then the handler, then the runtime keeping  *)
(* the handler's writes on Ok and dropping them on Err.                    *)
(*                                                                         *)
(* u64 is modelled U64Bits wide (TLC's integers are 32 bits); u16 and the  *)
(* basis-point denominator keep their real values.                         *)
(***************************************************************************)
EXTENDS Integers, FiniteSets, Sequences, TLC

\* ------------------------------------------------------------- bounds
\* Width of the model's "u64".
U64Bits == 24
\* Successful purchases per behaviour.
MaxBuys == 2
\* Epochs the settlement step may open (SpecSettle only).
MaxEpoch == 1

\* ---------------------------------------------------------- constants
U64_MAX == 2^U64Bits - 1
U64_MOD == 2^U64Bits
U16_MAX == 2^16 - 1
U16_MOD == 2^16
\* The basis-point denominator of lines 19 and 42.
BPS_DENOM == 10000

LotteryState_SIZE == 32 + 32 + 32 + 8 + 2 + 2 + 2 + 2 + 2 + 8 + 1
UserTickets_SIZE == 32 + 8 + 8

\* Lamports the payer of an `init` moves into the new account: the
\* rent-exempt minimum, which grows with the space asked for (one lamport
\* per byte at the model's scale).
Rent(space) == space

\* ----------------------------------------------------------- accounts
Users == {"u1", "u2"}
Admins == {"admin"}
VaultPda == "vault"
StatePda == "state"
Wallets == Admins \cup Users \cup {"t1"}
Accounts == Wallets \cup {VaultPda, StatePda}
NoKey == "default"
Epochs == 0..MaxEpoch

\* A zeroed (not yet created) LotteryState account.
NoState ==
  [init |-> FALSE, admin |-> NoKey, treasury |-> NoKey, vault |-> NoKey,
   ticket_price_lamports |-> 0, platform_fee_bps |-> 0, rake_bps |-> 0,
   withdrawal_fee_bps |-> 0, winner_bps |-> 0, rollover_bps |-> 0,
   epoch |-> 0, draw_open |-> FALSE]

\* A zeroed (not yet created) UserTickets account.
NoTickets == [init |-> FALSE, lamports |-> 0, user |-> NoKey, epoch |-> 0, count |-> 0]

\* ---------------------------------------------------------- u64 arithmetic
\* u64::wrapping_mul: (a * b) mod 2^w by double-and-add, every intermediate
\* value below 3 * 2^w.
RECURSIVE wrapping_mul(_, _)
wrapping_mul(a, b) ==
  IF b = 0 THEN 0
  ELSE (2 * wrapping_mul(a, b \div 2) + (b % 2) * a) % U64_MOD

\* A multiplication that wraps where checked_mul reports the overflow.
checked_mul_wrapping(a, b) == [ok |-> TRUE, val |-> wrapping_mul(a, b)]

\* u64::checked_mul
checked_mul(a, b) ==
  IF a = 0 \/ b <= U64_MAX \div a
  THEN [ok |-> TRUE, val |-> a * b]
  ELSE [ok |-> FALSE, val |-> 0]

\* u64::checked_sub
checked_sub(a, b) ==
  IF b <= a THEN [ok |-> TRUE, val |-> a - b] ELSE [ok |-> FALSE, val |-> 0]

\* An addition that wraps where saturating_add stops at the maximum.
wrapping_add(a, b) == (a + b) % U64_MOD

\* u64::saturating_add
saturating_add(a, b) == IF b > U64_MAX - a THEN U64_MAX ELSE a + b

\* The `*` of u64 operands: with overflow checks compiled in it panics on
\* overflow, without them it wraps.
mul_u64(a, b, checks) ==
  LET m == checked_mul(a, b) IN
  IF m.ok THEN m
  ELSE IF checks THEN [ok |-> FALSE, val |-> 0]
  ELSE [ok |-> TRUE, val |-> wrapping_mul(a, b)]

\* floor(total * bps / 10_000) over the mathematical integers.
FloorFee(total, bps) ==
  (total \div BPS_DENOM) * bps + ((total % BPS_DENOM) * bps) \div BPS_DENOM

\* ------------------------------------------------------------- inputs
BigPrice == 2^(U64Bits - 1)
Prices == {0, 1000, BigPrice}
FeeBps == {250, 333, BPS_DENOM, U16_MAX}
RakeBps == {300}
WithdrawalFeeBps == {100}
WinnerRollover == {<<6000, 4000>>, <<6000, 3999>>, <<U16_MAX, 10001>>}
InitTreasuries == {"t1"}
CommuteTreasuries == {"t1", "u1"}
CommutePrices == {1000}
CommuteFeeBps == {250, BPS_DENOM}
SettlePrices == {1000, BigPrice}
SettleFeeBps == {250}
SettleWinnerRollover == {<<6000, 4000>>}
Counts == {0, 1, 3, U64_MAX}
BuyTreasuries == {"t1", "u2", VaultPda}

\* Balances the wallets start with: the admin can fund the two accounts
\* initialize creates, u1 a record and two tickets of 1000, u2 a record and
\* one ticket of BigPrice.
InitLamports ==
  [a \in Accounts |->
     CASE a = "admin" -> Rent(8 + LotteryState_SIZE) + Rent(8) + 10
       [] a = "u1" -> 2100
       [] a = "u2" -> BigPrice + 4000
       [] OTHER -> 0]

\* -------------------------------------------------------------- state
VARIABLES
  state,            \* the LotteryState account (seeds "state")
  vault_init,       \* the vault PDA has been created
  lamports,         \* lamports of the wallets, the vault and the state PDA
  user_tickets,     \* the UserTickets accounts, by user and epoch
  overflow_checks,  \* the build panics on arithmetic overflow (else wraps)
  nbuys,            \* successful purchases so far
  last              \* the last instruction: its inputs and its outcome

vars == <<state, vault_init, lamports, user_tickets, overflow_checks, nbuys, last>>

\* The accounts an instruction reads and writes.
World == [state |-> state, vault_init |-> vault_init, lamports |-> lamports,
          user_tickets |-> user_tickets]

NoCall ==
  [op |-> "none", result |-> "none", signer |-> NoKey, treasury |-> NoKey,
   count |-> 0, price |-> 0, fee_bps |-> 0, rake_bps |-> 0,
   withdrawal_fee_bps |-> 0, winner_bps |-> 0, rollover_bps |-> 0,
   fee |-> 0, to_vault |-> 0]

Init ==
  /\ state = NoState
  /\ vault_init = FALSE
  /\ lamports = InitLamports
  /\ user_tickets = [u \in Users |-> [e \in Epochs |-> NoTickets]]
  /\ overflow_checks \in BOOLEAN
  /\ nbuys = 0
  /\ last = NoCall

\* What an instruction hands back: its result, the accounts as it left them
\* and the two amounts it asked the system program to move.
Outcome(result, w, fee, to_vault) ==
  [result |-> result, world |-> w, fee |-> fee, to_vault |-> to_vault]

\* A transfer that credits `to` and forgets to debit `from`.
transfer_no_debit(lam, from, to, amount) ==
  IF lam[from] < amount \/ lam[to] > U64_MAX - amount
  THEN [ok |-> FALSE, lamports |-> lam]
  ELSE [ok |-> TRUE, lamports |-> [lam EXCEPT ![to] = @ + amount]]

\* system_program::transfer: fails when `from` holds less than `amount`
\* (or the credit would leave u64), else debits `from` and credits `to`.
transfer(lam, from, to, amount) ==
  IF lam[from] < amount THEN [ok |-> FALSE, lamports |-> lam]
  ELSE LET debited == [lam EXCEPT ![from] = @ - amount] IN
       IF debited[to] > U64_MAX - amount THEN [ok |-> FALSE, lamports |-> lam]
       ELSE [ok |-> TRUE, lamports |-> [debited EXCEPT ![to] = @ + amount]]

\* An end of instruction that keeps the writes made before an error.
commit_partial(pre, out) == out.world

\* The runtime's end of an instruction: the handler's writes are kept on
\* Ok and dropped on any error.
commit(pre, out) == IF out.result = "Ok" THEN out.world ELSE pre

\* ---------------------------------------------------------- initialize
\* The check with <= in the place of ==.
bps_ok_le(winner_bps, rollover_bps) == winner_bps + rollover_bps <= BPS_DENOM

\* The sum taken in u16, where it wraps.
bps_ok_u16(winner_bps, rollover_bps) == (winner_bps + rollover_bps) % U16_MOD = BPS_DENOM

\* require!(winner_bps as u32 + rollover_bps as u32 == 10_000, BadBps)
bps_ok(winner_bps, rollover_bps) == winner_bps + rollover_bps = BPS_DENOM

\* The constraints with `init_if_needed` in the place of `init`: accounts
\* that exist are taken as they are.
Initialize_accounts_if_needed(w, admin) ==
  LET rent_state == Rent(8 + LotteryState_SIZE)
      rent_vault == Rent(8)
  IN IF w.state.init \/ w.vault_init THEN Outcome("Ok", w, 0, 0)
     ELSE IF w.lamports[admin] < rent_state + rent_vault
          THEN Outcome("InsufficientFunds", w, 0, 0)
     ELSE Outcome("Ok",
            [w EXCEPT !.state = [NoState EXCEPT !.init = TRUE],
                      !.vault_init = TRUE,
                      !.lamports = [@ EXCEPT ![admin] = @ - rent_state - rent_vault,
                                             ![StatePda] = @ + rent_state,
                                             ![VaultPda] = @ + rent_vault]],
            0, 0)

\* #[derive(Accounts)] Initialize: `init` creates the state PDA and the
\* vault PDA, the admin paying for both; `init` of an account that exists
\* already fails.
Initialize_accounts(w, admin) ==
  LET rent_state == Rent(8 + LotteryState_SIZE)
      rent_vault == Rent(8)
  IN IF w.state.init \/ w.vault_init THEN Outcome("AccountInUse", w, 0, 0)
     ELSE IF w.lamports[admin] < rent_state + rent_vault
          THEN Outcome("InsufficientFunds", w, 0, 0)
     ELSE Outcome("Ok",
            [w EXCEPT !.state = [NoState EXCEPT !.init = TRUE],
                      !.vault_init = TRUE,
                      !.lamports = [@ EXCEPT ![admin] = @ - rent_state - rent_vault,
                                             ![StatePda] = @ + rent_state,
                                             ![VaultPda] = @ + rent_vault]],
            0, 0)

\* A handler that stores the configuration with the draw closed.
initialize_handler_closed(w, admin, treasury, ticket_price_lamports, platform_fee_bps, rake_bps, withdrawal_fee_bps, winner_bps, rollover_bps) ==
  IF ~bps_ok(winner_bps, rollover_bps) THEN Outcome("BadBps", w, 0, 0)
  ELSE Outcome("Ok",
         [w EXCEPT !.state =
            [init |-> TRUE, admin |-> admin, treasury |-> treasury, vault |-> VaultPda,
             ticket_price_lamports |-> ticket_price_lamports,
             platform_fee_bps |-> platform_fee_bps, rake_bps |-> rake_bps,
             withdrawal_fee_bps |-> withdrawal_fee_bps, winner_bps |-> winner_bps,
             rollover_bps |-> rollover_bps, epoch |-> 0, draw_open |-> FALSE]],
         0, 0)

\* The handler of initialize, on the accounts as the constraints left them.
initialize_handler(w, admin, treasury, ticket_price_lamports, platform_fee_bps, rake_bps, withdrawal_fee_bps, winner_bps, rollover_bps) ==
  IF ~bps_ok(winner_bps, rollover_bps) THEN Outcome("BadBps", w, 0, 0)
  ELSE Outcome("Ok",
         [w EXCEPT !.state =
            [init |-> TRUE, admin |-> admin, treasury |-> treasury, vault |-> VaultPda,
             ticket_price_lamports |-> ticket_price_lamports,
             platform_fee_bps |-> platform_fee_bps, rake_bps |-> rake_bps,
             withdrawal_fee_bps |-> withdrawal_fee_bps, winner_bps |-> winner_bps,
             rollover_bps |-> rollover_bps, epoch |-> 0, draw_open |-> TRUE]],
         0, 0)

initialize(admin, treasury, ticket_price_lamports, platform_fee_bps, rake_bps, withdrawal_fee_bps, winner_bps, rollover_bps) ==
  \E out \in {LET acc == Initialize_accounts(World, admin) IN
               IF acc.result = "Ok"
               THEN initialize_handler(acc.world, admin, treasury, ticket_price_lamports,
                      platform_fee_bps, rake_bps, withdrawal_fee_bps, winner_bps,
                      rollover_bps)
               ELSE acc} :
  \E post \in {commit(World, out)} :
     /\ state' = post.state
     /\ vault_init' = post.vault_init
     /\ lamports' = post.lamports
     /\ user_tickets' = post.user_tickets
     /\ last' = [op |-> "initialize", result |-> out.result, signer |-> admin,
                 treasury |-> treasury, count |-> 0, price |-> ticket_price_lamports,
                 fee_bps |-> platform_fee_bps, rake_bps |-> rake_bps,
                 withdrawal_fee_bps |-> withdrawal_fee_bps, winner_bps |-> winner_bps,
                 rollover_bps |-> rollover_bps, fee |-> 0, to_vault |-> 0]
     /\ UNCHANGED <<overflow_checks, nbuys>>

\* --------------------------------------------------------- buy_tickets
\* Seeds that leave the user out: one record per epoch.
ticket_owner_shared(user) == "u1"

\* seeds = [b"user_tickets", user.key(), ...]: the user in the address of
\* the caller's UserTickets PDA.
ticket_owner(user) == user

\* Seeds that leave the epoch out: one record per user.
ticket_epoch_fixed(st) == 0

\* seeds = [b"user_tickets", user.key(), &state.epoch.to_le_bytes()]: the
\* epoch in the address of the caller's UserTickets PDA.
ticket_epoch(st) == st.epoch

\* #[derive(Accounts)] BuyTickets: the state PDA must hold a LotteryState;
\* the vault is the PDA of the seeds; the treasury is any writable account
\* the caller names; `init_if_needed` creates the caller's UserTickets PDA
\* of the current epoch, zeroed and paid for by the caller, when it does
\* not exist yet.
BuyTickets_accounts(w, user) ==
  LET e == ticket_epoch(w.state)
      rent == Rent(8 + UserTickets_SIZE)
  IN IF ~w.state.init THEN Outcome("AccountNotInitialized", w, 0, 0)
     ELSE IF w.user_tickets[ticket_owner(user)][e].init THEN Outcome("Ok", w, 0, 0)
     ELSE IF w.lamports[user] < rent THEN Outcome("InsufficientFunds", w, 0, 0)
     ELSE Outcome("Ok",
            [w EXCEPT !.lamports[user] = @ - rent,
                      !.user_tickets[ticket_owner(user)][e] =
                         [NoTickets EXCEPT !.init = TRUE, !.lamports = rent]],
            0, 0)

\* The check with >= in the place of >.
count_ok_ge(count) == count >= 0

\* require!(count > 0, BadAmount)
count_ok(count) == count > 0

\* The gate left out.
draw_ok_always(st) == TRUE

\* require!(state.draw_open, DrawClosed)
draw_ok(st) == st.draw_open

\* let fee = total * state.platform_fee_bps as u64 / 10_000;
fee_of(total, platform_fee_bps, checks) ==
  LET p == mul_u64(total, platform_fee_bps, checks) IN
  IF p.ok THEN [ok |-> TRUE, val |-> p.val \div BPS_DENOM] ELSE p

\* The vault sent the whole total, the fee not taken off.
to_vault_gross(total, fee) == [ok |-> TRUE, val |-> total]

\* let to_vault = total.checked_sub(fee)
to_vault_of(total, fee) == checked_sub(total, fee)

\* Lines 41-67 of buy_tickets: the amounts, the two transfers and the
\* record. On an error the outcome carries the accounts as they were when
\* the handler returned.
buy_tickets_pay(w, user, treasury, count, checks) ==
  LET st == w.state
      total == checked_mul(st.ticket_price_lamports, count)
      fee == fee_of(total.val, st.platform_fee_bps, checks)
      to_vault == to_vault_of(total.val, fee.val)
      paid_fee == transfer(w.lamports, user, treasury, fee.val)
      paid_vault == transfer(paid_fee.lamports, user, VaultPda, to_vault.val)
      ut == w.user_tickets[ticket_owner(user)][ticket_epoch(st)]
  IN IF ~total.ok THEN Outcome("Overflow", w, 0, 0)
     ELSE IF ~fee.ok THEN Outcome("Panic", w, 0, 0)
     ELSE IF ~to_vault.ok THEN Outcome("Overflow", w, 0, 0)
     ELSE IF ~paid_fee.ok THEN Outcome("InsufficientLamports", w, 0, 0)
     ELSE IF ~paid_vault.ok
          THEN Outcome("InsufficientLamports",
                 [w EXCEPT !.lamports = paid_fee.lamports], fee.val, 0)
     ELSE Outcome("Ok",
            [w EXCEPT !.lamports = paid_vault.lamports,
                      !.user_tickets[ticket_owner(user)][ticket_epoch(st)] =
                         [ut EXCEPT !.user = user, !.epoch = st.epoch,
                                    !.count = saturating_add(@, count)]],
            fee.val, to_vault.val)

\* The two require! in the other order.
buy_tickets_handler_draw_first(w, user, treasury, count, checks) ==
  IF ~draw_ok(w.state) THEN Outcome("DrawClosed", w, 0, 0)
  ELSE IF ~count_ok(count) THEN Outcome("BadAmount", w, 0, 0)
  ELSE buy_tickets_pay(w, user, treasury, count, checks)

\* The handler of buy_tickets, on the accounts as the constraints left them.
buy_tickets_handler(w, user, treasury, count, checks) ==
  IF ~count_ok(count) THEN Outcome("BadAmount", w, 0, 0)
  ELSE IF ~draw_ok(w.state) THEN Outcome("DrawClosed", w, 0, 0)
  ELSE buy_tickets_pay(w, user, treasury, count, checks)

\* One buy_tickets instruction on the accounts w: the constraints, the
\* handler, the end of the instruction.
buy_tickets_run(w, user, treasury, count, checks) ==
  LET acc == BuyTickets_accounts(w, user)
      out == IF acc.result = "Ok"
             THEN buy_tickets_handler(acc.world, user, treasury, count, checks)
             ELSE acc
  IN Outcome(out.result, commit(w, out), out.fee, out.to_vault)

buy_tickets(user, treasury, count) ==
  /\ nbuys < MaxBuys
  /\ \E out \in {buy_tickets_run(World, user, treasury, count, overflow_checks)} :
     \E post \in {out.world} :
     /\ state' = post.state
     /\ vault_init' = post.vault_init
     /\ lamports' = post.lamports
     /\ user_tickets' = post.user_tickets
     /\ nbuys' = IF out.result = "Ok" THEN nbuys + 1 ELSE nbuys
     /\ last' = [op |-> "buy_tickets", result |-> out.result, signer |-> user,
                 treasury |-> treasury, count |-> count,
                 price |-> state.ticket_price_lamports,
                 fee_bps |-> state.platform_fee_bps, rake_bps |-> 0,
                 withdrawal_fee_bps |-> 0, winner_bps |-> 0,
                 rollover_bps |-> 0, fee |-> out.fee, to_vault |-> out.to_vault]
  /\ UNCHANGED overflow_checks

\* ------------------------------------------------------- specification
InitializeCallsTo(treasuries, prices, fee_rates, winner_rollover) ==
  \E admin \in Admins, treasury \in treasuries, price \in prices,
     fee_bps \in fee_rates, rake \in RakeBps, wfee \in WithdrawalFeeBps,
     wr \in winner_rollover :
    initialize(admin, treasury, price, fee_bps, rake, wfee, wr[1], wr[2])

InitializeCalls(prices, fee_rates, winner_rollover) ==
  InitializeCallsTo(InitTreasuries, prices, fee_rates, winner_rollover)

BuyCalls(treasuries) ==
  \E user \in Users, treasury \in treasuries, count \in Counts :
    buy_tickets(user, treasury, count)

Next ==
  \/ InitializeCalls(Prices, FeeBps, WinnerRollover)
  \/ BuyCalls(BuyTreasuries)

Spec == Init /\ [][Next]_vars

\* The draw settlement the configuration is kept for (no instruction of the
\* program performs it yet): it closes the open draw, or opens the next
\* epoch's draw.
settle_draw ==
  /\ state.init
  /\ \/ state.draw_open /\ state' = [state EXCEPT !.draw_open = FALSE]
     \/ /\ ~state.draw_open
        /\ state.epoch < MaxEpoch
        /\ state' = [state EXCEPT !.epoch = @ + 1, !.draw_open = TRUE]
  /\ last' = [NoCall EXCEPT !.op = "settle_draw", !.result = "Ok"]
  /\ UNCHANGED <<vault_init, lamports, user_tickets, overflow_checks, nbuys>>

\* The instructions on fewer inputs (one valid pair of rates, the treasury
\* of the configuration), and the settlement.
NextSettle ==
  \/ InitializeCalls(SettlePrices, SettleFeeBps, SettleWinnerRollover)
  \/ BuyCalls(InitTreasuries)
  \/ settle_draw

SpecSettle == Init /\ [][NextSettle]_vars

\* The instructions with a treasury that may be a purchaser's wallet, every
\* purchase naming the treasury of the configuration.
NextCommute ==
  \/ InitializeCallsTo(CommuteTreasuries, CommutePrices, CommuteFeeBps,
                       SettleWinnerRollover)
  \/ BuyCalls({state.treasury})

SpecCommute == Init /\ [][NextCommute]_vars

\* ------------------------------------------------------------- claims
\* The accounts other than `last` and the bookkeeping of the model.
accounts == <<state, vault_init, lamports, user_tickets>>

\* This step is an invocation of buy_tickets.
BuyStep == last'.op = "buy_tickets"

\* This step is an invocation of initialize.
InitializeStep == last'.op = "initialize"

\* The constraints of BuyTickets hold for `user` in this state, so the
\* handler of buy_tickets is entered.
BuyEntered(user) ==
  /\ state.init
  /\ \/ user_tickets[user][state.epoch].init
     \/ lamports[user] >= Rent(8 + UserTickets_SIZE)

\* The constraints of Initialize hold for `admin` in this state, so the
\* handler of initialize is entered.
InitializeEntered(admin) ==
  /\ ~state.init
  /\ ~vault_init
  /\ lamports[admin] >= Rent(8 + LotteryState_SIZE) + Rent(8)

\* What this step paid for the creation of `user`'s record.
RentPaid(user) ==
  user_tickets'[user][state.epoch].lamports - user_tickets[user][state.epoch].lamports

\* This step moved exactly `fee` from `user` to `treasury` and `net` from
\* `user` to the vault (and the rent of a record created), nothing else.
Moved(user, treasury, fee, net) ==
  \A a \in Accounts :
    lamports'[a] - lamports[a] =
        (IF a = treasury THEN fee ELSE 0)
      + (IF a = VaultPda THEN net ELSE 0)
      - (IF a = user THEN fee + net + RentPaid(user) ELSE 0)

\* C1: every successful buy_tickets with count > 0 under a fee rate of at
\* most 10_000 bps moves a fee and a net amount that add up to
\* ticket_price * count exactly, and the ledger moves those two amounts and
\* no other lamport of the purchase.
C1_SplitExact ==
  [][(BuyStep /\ last'.result = "Ok" /\ last'.count > 0
        /\ last'.fee_bps <= BPS_DENOM)
       => /\ last'.fee + last'.to_vault = last'.price * last'.count
          /\ Moved(last'.signer, last'.treasury, last'.fee, last'.to_vault)]_vars

\* A purchase went through whose fee is a rounded-down, non-zero share.
C1_Witness ==
  /\ last.op = "buy_tickets" /\ last.result = "Ok"
  /\ last.fee_bps <= BPS_DENOM /\ last.fee > 0 /\ last.to_vault > 0
  /\ (((last.price * last.count) % BPS_DENOM) * last.fee_bps) % BPS_DENOM # 0

\* C2: whenever ticket_price * count fits in u64, buy_tickets computes
\* fee = floor(total * platform_fee_bps / 10_000) over the mathematical
\* integers, and no arithmetic other than price * count fails.
C2_FeeIsFloor ==
  /\ (last.op = "buy_tickets" /\ last.result = "Ok")
       => last.fee = FloorFee(last.price * last.count, last.fee_bps)
  /\ last.result # "Panic"

\* C3: a successful buy_tickets raises the balance of the treasury the
\* configuration records by exactly the fee and the balance of the vault
\* by exactly the net amount.
C3_FeeToConfiguredTreasury ==
  [][(BuyStep /\ last'.result = "Ok")
       => /\ lamports'[state.treasury] = lamports[state.treasury] + last'.fee
          /\ lamports'[VaultPda] = lamports[VaultPda] + last'.to_vault]_vars

\* C4: an invocation of buy_tickets applies its three effects (fee to the
\* treasury named, net to the vault, the record's count raised) together or
\* changes no account at all.
C4_Atomic ==
  [][BuyStep
       => \/ UNCHANGED accounts
          \/ LET u == last'.signer
                 e == state.epoch
             IN /\ last'.result = "Ok"
                /\ Moved(u, last'.treasury, last'.fee, last'.to_vault)
                /\ user_tickets'[u][e].init
                /\ user_tickets'[u][e].count =
                     saturating_add(user_tickets[u][e].count, last'.count)]_vars

\* The purchaser could pay the fee and not the net amount: the call failed
\* after its first transfer.
C4_Witness ==
  /\ last.op = "buy_tickets" /\ last.result = "InsufficientLamports"
  /\ last.fee > 0
  /\ lamports[last.signer] >= last.fee

\* C5: buy_tickets entered with count == 0 fails with BadAmount whatever
\* the state, and a call with count == 0 changes no balance, no
\* configuration and no record, the caller's record not created.
C5_ZeroCount ==
  [][(BuyStep /\ last'.count = 0)
       => /\ BuyEntered(last'.signer) => last'.result = "BadAmount"
          /\ last'.result # "Ok"
          /\ UNCHANGED accounts]_vars

\* A call with count == 0 by a caller who has no record failed with
\* BadAmount and left none behind.
C5_Witness ==
  /\ last.op = "buy_tickets" /\ last.count = 0 /\ last.result = "BadAmount"
  /\ ~user_tickets[last.signer][state.epoch].init

\* a * b leaves the u64 range.
MulOverflows(a, b) == a # 0 /\ b > U64_MAX \div a

\* C6 as stated: with the draw closed, buy_tickets fails with DrawClosed
\* for every count, count == 0 included, and changes no account.
C6_ClosedAnyCount ==
  [][(BuyStep /\ BuyEntered(last'.signer) /\ ~state.draw_open)
       => /\ last'.result = "DrawClosed"
          /\ UNCHANGED accounts]_vars

\* C6: with the draw closed, buy_tickets fails with DrawClosed for every
\* count > 0, those whose price * count overflows included, and changes no
\* account.
C6_ClosedPositiveCount ==
  [][(BuyStep /\ BuyEntered(last'.signer) /\ ~state.draw_open /\ last'.count > 0)
       => /\ last'.result = "DrawClosed"
          /\ UNCHANGED accounts]_vars

\* A purchase whose price * count overflows was refused with DrawClosed
\* while the draw was closed.
C6_Witness ==
  /\ last.op = "buy_tickets" /\ last.result = "DrawClosed"
  /\ state.init /\ ~state.draw_open
  /\ MulOverflows(last.price, last.count)

\* C7: buy_tickets entered with count > 0, the draw open and
\* ticket_price * count outside u64 fails with Overflow and changes no
\* account: no transfer, no record created or incremented.
C7_Overflow ==
  [][(BuyStep /\ BuyEntered(last'.signer) /\ last'.count > 0 /\ state.draw_open
        /\ MulOverflows(state.ticket_price_lamports, last'.count))
       => /\ last'.result = "Overflow"
          /\ UNCHANGED accounts]_vars

\* An overflowing purchase by a caller without a record was refused with
\* Overflow, the fee rate being one that cannot make the subtraction fail.
C7_Witness ==
  /\ last.op = "buy_tickets" /\ last.result = "Overflow"
  /\ last.count > 0 /\ MulOverflows(last.price, last.count)
  /\ last.fee_bps <= BPS_DENOM
  /\ state.draw_open
  /\ ~user_tickets[last.signer][state.epoch].init

\* C8: initialize entered fails with BadBps exactly when winner_bps +
\* rollover_bps differs from 10_000 over the integers, then creating no
\* configuration and no vault; otherwise it succeeds and stores the price
\* and the rates given, with epoch 0 and the draw open.
C8_BadBps ==
  [][(InitializeStep /\ InitializeEntered(last'.signer))
       => LET sum_ok == last'.winner_bps + last'.rollover_bps = BPS_DENOM IN
          /\ last'.result = "BadBps" <=> ~sum_ok
          /\ ~sum_ok => (UNCHANGED accounts /\ ~state'.init /\ ~vault_init')
          /\ sum_ok =>
               /\ last'.result = "Ok"
               /\ vault_init'
               /\ state' =
                    [init |-> TRUE, admin |-> last'.signer,
                     treasury |-> last'.treasury, vault |-> VaultPda,
                     ticket_price_lamports |-> last'.price,
                     platform_fee_bps |-> last'.fee_bps,
                     rake_bps |-> last'.rake_bps,
                     withdrawal_fee_bps |-> last'.withdrawal_fee_bps,
                     winner_bps |-> last'.winner_bps,
                     rollover_bps |-> last'.rollover_bps,
                     epoch |-> 0, draw_open |-> TRUE]]_vars

\* A first initialize whose rates add up to 10_000 only in 16 bits was
\* refused with BadBps.
C8_Witness ==
  /\ last.op = "initialize" /\ last.result = "BadBps"
  /\ (last.winner_bps + last.rollover_bps) % U16_MOD = BPS_DENOM
  /\ ~state.init /\ ~vault_init

\* C9: once the configuration exists every initialize fails and leaves the
\* configuration, every balance (the vault's included) and every record
\* as they were.
C9_InitializeOnce ==
  [][(InitializeStep /\ state.init)
       => /\ last'.result # "Ok"
          /\ UNCHANGED accounts]_vars

\* An initialize with other parameters was refused after tickets had been
\* sold.
C9_Witness ==
  /\ last.op = "initialize" /\ last.result = "AccountInUse"
  /\ nbuys > 0
  /\ last.price # state.ticket_price_lamports

\* C10: whenever the configuration exists, its winner_bps and rollover_bps
\* add up to 10_000.
C10_BpsSum ==
  state.init => state.winner_bps + state.rollover_bps = BPS_DENOM

\* The configuration exists, tickets have been sold and the last call, a
\* purchase, failed.
C10_Witness ==
  /\ state.init /\ nbuys > 0
  /\ last.op = "buy_tickets" /\ last.result # "Ok"

\* C11: a successful purchase of c tickets leaves the purchaser's record of
\* the epoch at min(2^w - 1, count before + c), a record not yet created
\* counting 0, so that purchases c1..cn add up to min(2^w - 1, c1 + ... +
\* cn); no step lowers a count; a purchase that reaches the maximum
\* succeeds and moves its fee and its net amount in full.
C11_SaturatingCount ==
  [][/\ \A u \in Users, e \in Epochs :
          user_tickets'[u][e].count >= user_tickets[u][e].count
     /\ (BuyStep /\ last'.result = "Ok")
          => LET u == last'.signer
                 before == user_tickets[u][state.epoch].count
                 sum == before + last'.count
             IN /\ user_tickets'[u][state.epoch].count =
                     (IF sum > U64_MAX THEN U64_MAX ELSE sum)
                /\ Moved(u, last'.treasury, last'.fee, last'.to_vault)]_vars

\* A purchase of one more ticket went through on a record that was at the
\* maximum already, and left it there.
C11_Witness ==
  /\ last.op = "buy_tickets" /\ last.result = "Ok" /\ last.count = 1
  /\ user_tickets[last.signer][state.epoch].count = U64_MAX

\* C12: a successful purchase in the epoch of the configuration writes the
\* purchaser's record of that epoch only: the records of the other epochs
\* keep their counts, and a record first written in this epoch counts the
\* tickets of this purchase alone.
C12_RecordPerEpoch ==
  [][(BuyStep /\ last'.result = "Ok")
       => LET u == last'.signer
              e == state.epoch
          IN /\ \A e2 \in Epochs \ {e} : user_tickets'[u][e2] = user_tickets[u][e2]
             /\ user_tickets'[u][e].init /\ user_tickets'[u][e].epoch = e
             /\ ~user_tickets[u][e].init => user_tickets'[u][e].count = last'.count]_vars

\* A participant who held three tickets of epoch 0 bought one in epoch 1:
\* two records, of three tickets and of one.
C12_Witness ==
  /\ state.epoch = 1
  /\ last.op = "buy_tickets" /\ last.result = "Ok" /\ last.count = 1
  /\ user_tickets[last.signer][0].init /\ user_tickets[last.signer][0].count = 3
  /\ user_tickets[last.signer][1].init /\ user_tickets[last.signer][1].count = 1

\* C13: buy_tickets reports the first failing check of count > 0, draw
\* open, price * count in range: count == 0 yields BadAmount on a closed
\* draw too, a closed draw with count > 0 yields DrawClosed also where
\* price * count overflows, and Overflow is reported only with count > 0
\* and the draw open.
C13_CheckOrder ==
  [][(BuyStep /\ BuyEntered(last'.signer))
       => /\ last'.count = 0 => last'.result = "BadAmount"
          /\ (last'.count > 0 /\ ~state.draw_open) => last'.result = "DrawClosed"
          /\ last'.result = "Overflow" => (last'.count > 0 /\ state.draw_open)
          /\ (last'.count > 0 /\ state.draw_open
                /\ MulOverflows(state.ticket_price_lamports, last'.count))
               => last'.result = "Overflow"]_vars

\* A call with count == 0 on a closed draw was refused with BadAmount.
C13_Witness ==
  /\ last.op = "buy_tickets" /\ last.result = "BadAmount" /\ last.count = 0
  /\ state.init /\ ~state.draw_open

\* C14: when the arithmetic of the fee and the net amount leaves the u64
\* range (the product total * platform_fee_bps, or a fee above total under
\* a rate above 10_000), buy_tickets fails with Overflow and changes no
\* account; the net amount of a successful purchase is total minus the
\* fee over the integers, never negative and never wrapped.
C14_FeeArithmeticOverflow ==
  [][(BuyStep /\ BuyEntered(last'.signer) /\ last'.count > 0 /\ state.draw_open
        /\ ~MulOverflows(state.ticket_price_lamports, last'.count))
       => LET total == state.ticket_price_lamports * last'.count
              bps == state.platform_fee_bps
          IN /\ (MulOverflows(total, bps) \/ FloorFee(total, bps) > total)
                  => (last'.result = "Overflow" /\ UNCHANGED accounts)
             /\ last'.result = "Ok"
                  => last'.to_vault = total - FloorFee(total, bps)]_vars

\* C15: a successful buy_tickets by p changes only the balances of p, of
\* the treasury of the configuration and of the vault, and p's record of
\* the current epoch: the configuration, the records of other participants
\* and of other epochs and every other balance stay as they were.
C15_Frame ==
  [][(BuyStep /\ last'.result = "Ok")
       => LET p == last'.signer IN
          /\ state' = state
          /\ vault_init' = vault_init
          /\ \A u \in Users, e \in Epochs :
               (u # p \/ e # state.epoch) => user_tickets'[u][e] = user_tickets[u][e]
          /\ \A a \in Accounts \ {p, state.treasury, VaultPda} :
               lamports'[a] = lamports[a]]_vars

\* C15, the part the code keeps: a successful buy_tickets leaves the
\* configuration and every record but the purchaser's of the current epoch
\* as they were.
C15_ConfigAndRecordsKept ==
  [][(BuyStep /\ last'.result = "Ok")
       => /\ state' = state
          /\ vault_init' = vault_init
          /\ \A u \in Users, e \in Epochs :
               (u # last'.signer \/ e # state.epoch)
                 => user_tickets'[u][e] = user_tickets[u][e]]_vars

\* Purchases by p (naming treasury tp, count cp) and by q (tq, cq), each
\* one instruction, end the same in both orders: each call has the result
\* it has when it runs first, and the accounts are the same at the end.
Commute(p, tp, cp, q, tq, cq) ==
  LET p1 == buy_tickets_run(World, p, tp, cp, overflow_checks)
      q2 == buy_tickets_run(p1.world, q, tq, cq, overflow_checks)
      q1 == buy_tickets_run(World, q, tq, cq, overflow_checks)
      p2 == buy_tickets_run(q1.world, p, tp, cp, overflow_checks)
  IN /\ p1.result = p2.result
     /\ q1.result = q2.result
     /\ q2.world = p2.world

C17_PricePositive ==
  /\ state.init => state.ticket_price_lamports > 0
  /\ (last.op = "buy_tickets" /\ last.result = "Ok")
       => last.fee + last.to_vault > 0

\* C18: every UserTickets record that exists at the address of (p, e) has
\* user == p and epoch == e and counts at least one ticket: a purchase
\* that rewrites the two fields writes the values they had, and no
\* instruction that fails leaves a record behind.
C18_RecordWellFormed ==
  \A p \in Users, e \in Epochs :
    user_tickets[p][e].init
      => /\ user_tickets[p][e].user = p
         /\ user_tickets[p][e].epoch = e
         /\ user_tickets[p][e].count >= 1

\* A second purchase in epoch 1 has rewritten the fields of a record that
\* held tickets already.
C18_Witness ==
  /\ state.epoch = 1
  /\ last.op = "buy_tickets" /\ last.result = "Ok" /\ last.count > 0
  /\ user_tickets[last.signer][1].init
  /\ user_tickets[last.signer][1].count > last.count

\* C19: through initialize and buy_tickets alone the configuration, once
\* it exists, has its draw open and its epoch 0, the epoch never goes
\* down, no buy_tickets returns DrawClosed and every record is of epoch 0.
C19_OpenAtEpochZero ==
  [][/\ state'.init => (state'.draw_open /\ state'.epoch = 0)
     /\ state'.epoch >= state.epoch
     /\ last'.result # "DrawClosed"
     /\ \A p \in Users, e \in Epochs :
          user_tickets'[p][e].init => (e = 0 /\ user_tickets'[p][e].epoch = 0)]_vars

\* Both participants hold a record after two purchases that went through.
C19_Witness ==
  /\ state.init /\ state.draw_open /\ nbuys = 2
  /\ last.op = "buy_tickets" /\ last.result = "Ok"
  /\ \A p \in Users : user_tickets[p][0].init

\* The sum of f over the finite set S.
RECURSIVE SumOver(_, _)
SumOver(S, f) ==
  IF S = {} THEN 0
  ELSE LET x == CHOOSE y \in S : TRUE IN f[x] + SumOver(S \ {x}, f)

\* All the lamports there are: those of the wallets, the vault and the
\* state PDA, and the rent the UserTickets records hold.
TotalLamports(lam, ut) ==
  SumOver(Accounts, lam)
    + SumOver(Users \X Epochs, [ue \in Users \X Epochs |-> ut[ue[1]][ue[2]].lamports])

\* C20: no instruction creates or destroys lamports and none takes any
\* from the vault; a successful purchase debits the purchaser of what it
\* credits to the fee recipient and to the vault (and of the rent of a
\* record it creates), and a failed instruction moves nothing.
C20_Conserved ==
  /\ [](TotalLamports(lamports, user_tickets) = SumOver(Accounts, InitLamports))
  /\ [][/\ lamports'[VaultPda] >= lamports[VaultPda]
        /\ (BuyStep /\ last'.result = "Ok")
             => Moved(last'.signer, last'.treasury, last'.fee, last'.to_vault)
        /\ last'.result # "Ok" => UNCHANGED accounts]_vars

\* A second purchase credited a fee to its recipient and a net amount to
\* the vault, on top of the rent the vault was created with.
C20_Witness ==
  /\ last.op = "buy_tickets" /\ last.result = "Ok"
  /\ last.fee > 0 /\ last.to_vault > 0
  /\ lamports[last.treasury] >= last.fee
  /\ lamports[VaultPda] >= Rent(8) + last.to_vault
  /\ nbuys = 2

====
